---- MODULE Spec2Model ----
(***************************************************************************)
(* Model of the inference gateway of DLWAT_WebApp                          *)
(* (src/pages/api/predict.js): the request handler that stores an upload,  *)
(* submits it to the remote prediction service, polls while the service    *)
(* reports "queued", answers, and removes the temporary upload.            *)
(*                                                                         *)
(* One handler invocation is a process; its position (pc) moves from one   *)
(* await of the source to the next.  JavaScript values are tagged records  *)
(* so that truthiness, property access, ?? and the string conversions are  *)
(* computed as the code computes them.                                     *)
(***************************************************************************)
EXTENDS Integers, Sequences, FiniteSets, TLC

\* ------------------------------------------------------------------ values
Null == [t |-> "null"]
Undefined == [t |-> "undefined"]
Str(s) == [t |-> "string", s |-> s]
Num(n) == [t |-> "number", n |-> n]
Bool(b) == [t |-> "boolean", b |-> b]
Obj(r) == [t |-> "object", f |-> r]
Arr(e) == [t |-> "array", e |-> e]

\* Array.isArray(v)
IsArray(v) == v.t = "array"

\* JavaScript truthiness
Truthy(v) ==
    CASE v.t = "null" -> FALSE
      [] v.t = "undefined" -> FALSE
      [] v.t = "boolean" -> v.b
      [] v.t = "number" -> v.n # 0
      [] v.t = "string" -> ("s" \in DOMAIN v) => v.s # ""
      [] OTHER -> TRUE

\* the `in` operator, used only on values whose typeof is "object"
HasKey(v, k) == v.t = "object" /\ k \in DOMAIN v.f

\* property read v.k on a non-nullish value (absent property: undefined)
Get(v, k) == IF HasKey(v, k) THEN v.f[k] ELSE Undefined

\* a ?? b
Nullish(v) == v.t \in {"null", "undefined"}
Coalesce(a, b) == IF Nullish(a) THEN b ELSE a

\* typeof v === "object" (true of null as well)
TypeofObject(v) == v.t \in {"object", "null"}

\* JSON.stringify(v): the JSON text of v, a string that is not v itself
JSONStringify(v) == [t |-> "string", json |-> v]

\* v.toString() for the values that reach it: a string is itself, a plain
\* object prints as "[object Object]"
toString(v) == IF v.t = "string" THEN v ELSE Str("[object Object]")

\* ------------------------------------------------------- program constants
maxAttempts == 12
delayMs == 2000

\* ------------------------------------------------------- upstream outcomes
\* result.type === "status" && result.queue  (lines 65 and 80, 99)
IsQueuedReturn(result) ==
    /\ Truthy(result)
    /\ Get(result, "type") = Str("status")
    /\ Truthy(Get(result, "queue"))

IsQueuedThrow(err) ==
    /\ Truthy(err)
    /\ TypeofObject(err)
    /\ Get(err, "type") = Str("status")
    /\ Truthy(Get(err, "queue"))

QueuedSentinel == Obj([type |-> Str("status"), queue |-> Bool(TRUE)])
QueuedAtPosition == Obj([type |-> Str("status"), queue |-> Num(3)])
Payload == Obj([classification |-> Str("0,1,1"), clusters |-> Str("2,0,2")])
DataEnvelope == Obj([type |-> Str("data"), data |-> Payload])
EmptyEnvelope == Obj([type |-> Str("data"), data |-> Null])
StatusNotQueued == Obj([type |-> Str("status"), queue |-> Bool(FALSE)])
UpstreamError == Obj([message |-> Str("upstream failed")])
StatusError ==
    Obj([type |-> Str("status"), queue |-> Bool(FALSE),
         message |-> Str("stage error")])
NullMessage == Obj([message |-> Null])
Opaque == Obj([code |-> Num(7)])

\* what client.predict may return
ReturnValues ==
    {QueuedSentinel, QueuedAtPosition, DataEnvelope, Payload, EmptyEnvelope,
     StatusNotQueued, Null, Undefined}

\* what client.predict may throw
ThrowValues ==
    {QueuedSentinel, QueuedAtPosition, UpstreamError, StatusError,
     StatusNotQueued, NullMessage, Opaque, Str("boom"), Str(""), Null}

Outcomes ==
    [form : {"return"}, val : ReturnValues] \cup
    [form : {"throw"}, val : ThrowValues]

\* the outcomes of the two-invocation specification
PairOutcomes ==
    [form : {"return"}, val : {QueuedSentinel, DataEnvelope}] \cup
    [form : {"throw"}, val : {QueuedSentinel, UpstreamError}]

\* the upstream reports "queued", in either form
IsQueued(o) ==
    IF o.form = "return" THEN IsQueuedReturn(o.val) ELSE IsQueuedThrow(o.val)

\* what formidable and fs reject with: Error objects
ParseError == Obj([message |-> Str("bad multipart")])
ReadError == Obj([message |-> Str("EIO: read failed")])

\* what Client.connect may throw
ConnectThrows == {UpstreamError, QueuedSentinel, Str("boom")}

\* ------------------------------------------------------------------ requests
Fields == {"file", "upload", "doc"}

\* a request: its method, whether the multipart body parses, the form fields
\* that carry a file, whether the parser's file objects carry a path, and
\* whether the parser gives each field's files as an array
Requests ==
    [method : {"POST", "GET"}, malformed : BOOLEAN,
     sent : SUBSET Fields, hasPath : BOOLEAN, asArray : BOOLEAN]

\* the requests a client can send: a malformed body stores nothing, and a
\* stored file always has a path unless the parser gave none at all
RealRequests ==
    {r \in Requests :
        /\ r.malformed => (r.sent = {} /\ r.hasPath /\ ~r.asArray)
        /\ r.method = "GET" =>
               (~r.malformed /\ r.hasPath /\ r.sent = {"file"} /\ ~r.asArray)
        /\ r.sent = {} => ~r.asArray
        /\ ~r.hasPath => r.sent \cap {"file", "upload"} # {}}

PairRequests ==
    {r \in RealRequests : r.method = "POST" /\ ~r.malformed /\ r.hasPath
                          /\ ~r.asArray
                          /\ r.sent \in {{"file"}, {"upload"}, {"file", "upload"}}}

\* variant of TmpPath: every upload is stored under one fixed name
TmpPathShared(i, fld) == [t |-> "path", p |-> <<1, fld>>]

\* the temporary path formidable gives the file of field fld of invocation i
TmpPath(i, fld) == [t |-> "path", p |-> <<i, fld>>]

\* the file object formidable builds for a stored file
FileObject(i, fld, r) ==
    IF r.hasPath THEN Obj([filepath |-> TmpPath(i, fld)])
    ELSE Obj([size |-> Num(0)])

\* the `files` argument of the parse callback (line 15)
Files(i, r) ==
    Obj([fld \in r.sent |->
            IF r.asArray THEN Arr(<<FileObject(i, fld, r)>>)
            ELSE FileObject(i, fld, r)])

\* the files formidable wrote to disk while parsing
Stored(i, r) == IF r.hasPath THEN {TmpPath(i, fld) : fld \in r.sent} ELSE {}

\* ------------------------------------------------------------------ responses
Response(status, body) == [status |-> status, body |-> body]
ErrorBody(msg) == Obj([error |-> msg])
QueuedBody ==
    Obj([queued |-> Bool(TRUE),
         message |-> Str("Prediction queued, try again later")])
NoResultBody == Obj([message |-> Str("No result returned")])

\* ------------------------------------------------------------ the page
\* (src/app/page.tsx holds two versions of the page component Home: the one
\* of lines 30-399 reads the flat classification/clusters arrays, the one of
\* lines 429-1086 reads the summary/cluster_profiles/predictions_preview
\* shape.)

MaxLen == 3
MaxPreview == 2

\* the sequences over S of length at most n
SeqUpTo(S, n) == UNION {[1..k -> S] : k \in 0..n}

\* an object literal or parsed JSON object whose keys were created in the
\* order given
OObj(order, f) == [t |-> "object", f |-> f, order |-> order]
EmptyObject == OObj(<<>>, <<>>)

\* the numbers that occur as array elements, and the range their keys
\* are read back in
ArrValues == {-1, 0, 2, 10}
NumberRange == -1..10

\* String(v) of a number
String(v) == ToString(v.n)

\* Number(k) of a key made by String
Number(k) == CHOOSE n \in NumberRange : ToString(n) = k

\* a key that is an array index: the canonical text of a non-negative integer
IsIndexKey(k) == \E n \in NumberRange : n >= 0 /\ ToString(n) = k

RECURSIVE IndexKeysFrom(_, _)
IndexKeysFrom(n, keys) ==
    IF n \notin NumberRange THEN <<>>
    ELSE (IF ToString(n) \in keys THEN <<ToString(n)>> ELSE <<>>)
         \o IndexKeysFrom(n + 1, keys)

\* Object.keys(o): the index keys in ascending order, then the other keys in
\* the order of their creation; no key for a value that is not an object
ObjectKeys(o) ==
    IF o.t # "object" THEN <<>>
    ELSE LET isOther(k) == ~IsIndexKey(k)
         IN  IndexKeysFrom(0, {o.order[n] : n \in 1..Len(o.order)})
             \o SelectSeq(o.order, isOther)

\* variant of ObjectValues: the values in the order the keys were created
ObjectValuesCreationOrder(o) ==
    IF o.t # "object" THEN <<>>
    ELSE [n \in 1..Len(o.order) |-> o.f[o.order[n]]]

\* Object.values(o)
ObjectValues(o) ==
    LET keys == ObjectKeys(o) IN [n \in 1..Len(keys) |-> o.f[keys[n]]]

RECURSIVE CountFrom(_, _, _)
\* lines 68-71: arr.forEach(v => counts[String(v)] = (counts[k] || 0) + 1)
CountFrom(arr, n, counts) ==
    IF n > Len(arr) THEN counts
    ELSE LET k == String(arr[n])
             old == Get(counts, k)
             new == Num((IF Truthy(old) THEN old.n ELSE 0) + 1)
         IN  CountFrom(arr, n + 1,
                 IF HasKey(counts, k)
                 THEN OObj(counts.order, [counts.f EXCEPT ![k] = new])
                 ELSE OObj(Append(counts.order, k),
                           [j \in DOMAIN counts.f \cup {k} |->
                               IF j = k THEN new ELSE counts.f[j]]))

RECURSIVE InsertSorted(_, _)
\* place x after the elements that do not sort after it
InsertSorted(x, sorted) ==
    IF sorted = <<>> THEN <<x>>
    ELSE IF Number(x) - Number(Head(sorted)) < 0 THEN <<x>> \o sorted
    ELSE <<Head(sorted)>> \o InsertSorted(x, Tail(sorted))

RECURSIVE SortFrom(_, _, _)
SortFrom(keys, n, sorted) ==
    IF n > Len(keys) THEN sorted
    ELSE SortFrom(keys, n + 1, InsertSorted(keys[n], sorted))

\* variant of SortLabels: the keys are left in the order Object.keys gives
SortLabelsOmitted(keys) == keys

\* line 73: keys.sort((a, b) => Number(a) - Number(b)), a stable sort
SortLabels(keys) == SortFrom(keys, 1, <<>>)

\* lines 66-76: buildCounts(arr)
buildCounts(arr) ==
    LET counts == CountFrom(arr, 1, EmptyObject)
        labels == SortLabels(ObjectKeys(counts))
    IN  [counts |-> counts,
         labels |-> labels,
         values |-> [n \in 1..Len(labels) |-> counts.f[labels[n]]],
         total |-> Len(arr)]

\* the decimal text of t tenths
Tenths(t) == ToString(t \div 10) \o "." \o ToString(t % 10)

\* variant of toFixed: the digits after the first decimal are cut off
toFixedCut(val, total) == Tenths((1000 * val) \div total)

\* ((val / total) * 100).toFixed(1): the nearest number of tenths, the
\* larger one of two equally near
toFixed(val, total) == Tenths((2000 * val + total) \div (2 * total))

\* lines 345-346 and 363-364: the percentage shown next to a label
Percentage(value, total) ==
    LET val == Coalesce(value, Num(0))
    IN  IF total # 0 THEN toFixed(val.n, total) ELSE "0.0"

\* lines 344 and 362: labels.map(...), one percentage per label
Percentages(table) ==
    [idx \in 1..Len(table.labels) |->
        Percentage(IF idx <= Len(table.values) THEN table.values[idx]
                   ELSE Undefined, table.total)]

\* lines 58-79: what the first version of Home derives from result
LegacyView(result) ==
    LET output == IF IsArray(result)
                  THEN Coalesce(IF Len(result.e) >= 1 THEN result.e[1]
                                ELSE Undefined, EmptyObject)
                  ELSE Coalesce(result, EmptyObject)
        classificationData ==
            IF IsArray(Get(output, "classification"))
            THEN Get(output, "classification").e ELSE <<>>
        clusterData ==
            IF IsArray(Get(output, "clusters"))
            THEN Get(output, "clusters").e ELSE <<>>
    IN  [kind |-> "legacy",
         shown |-> Truthy(result),
         classificationData |-> classificationData,
         clusterData |-> clusterData,
         classification |-> buildCounts(classificationData),
         clusters |-> buildCounts(clusterData),
         classificationPct |-> Percentages(buildCounts(classificationData)),
         clusterPct |-> Percentages(buildCounts(clusterData))]

\* what a render that throws leaves: React unmounts the page
TypeError == [kind |-> "TypeError"]

\* the sum of the numbers of a list
RECURSIVE SumFrom(_, _)
SumFrom(nums, n) ==
    IF n > Len(nums) THEN 0 ELSE nums[n].n + SumFrom(nums, n + 1)

\* variant of ConfidenceRanges: the Medium range opens above 0.6
ConfidenceRangesGap(confidenceValues) ==
    LET at == DOMAIN confidenceValues
        c(n) == confidenceValues[n].n
    IN  [High |-> Cardinality({n \in at : c(n) >= 80}),
         Medium |-> Cardinality({n \in at : c(n) > 60 /\ c(n) < 80}),
         Low |-> Cardinality({n \in at : c(n) >= 40 /\ c(n) < 60}),
         VeryLow |-> Cardinality({n \in at : c(n) < 40})]

\* lines 484-489: the four ranges, each the length of a filter; a confidence
\* is held in hundredths, so 0.8, 0.6 and 0.4 are 80, 60 and 40
ConfidenceRanges(confidenceValues) ==
    LET at == DOMAIN confidenceValues
        c(n) == confidenceValues[n].n
    IN  [High |-> Cardinality({n \in at : c(n) >= 80}),
         Medium |-> Cardinality({n \in at : c(n) >= 60 /\ c(n) < 80}),
         Low |-> Cardinality({n \in at : c(n) >= 40 /\ c(n) < 60}),
         VeryLow |-> Cardinality({n \in at : c(n) < 40})]

\* variant of Average: the sum is divided by the number of confidences
\* that are not 0
AverageOfPresent(confidenceValues) ==
    LET present == {n \in DOMAIN confidenceValues : confidenceValues[n].n # 0}
    IN  IF Cardinality(present) > 0
        THEN [sum |-> SumFrom(confidenceValues, 1),
              over |-> Cardinality(present)]
        ELSE [sum |-> 0, over |-> 1]

\* lines 479-481: avgConfidence, the fraction sum/over (0 is 0/1)
Average(confidenceValues) ==
    IF Len(confidenceValues) > 0
    THEN [sum |-> SumFrom(confidenceValues, 1),
          over |-> Len(confidenceValues)]
    ELSE [sum |-> 0, over |-> 1]

\* line 1033: the table shows the first 20 rows of the preview
PreviewLimit == 20

\* the rows of the predictions table (showFullPreview is false)
TableRows(predictionsPreview) ==
    SubSeq(predictionsPreview, 1,
           IF Len(predictionsPreview) < PreviewLimit
           THEN Len(predictionsPreview) ELSE PreviewLimit)

\* prediction.confidence >= t: a missing confidence is undefined, which
\* compares false with every number; null compares as 0
AtLeast(confidence, t) ==
    CASE confidence.t = "number" -> confidence.n >= t
      [] confidence.t = "null" -> 0 >= t
      [] OTHER -> FALSE

\* variant of RowColour: the thresholds are exclusive
RowColourExclusive(prediction) ==
    LET confidence == Get(prediction, "confidence")
    IN  IF AtLeast(confidence, 81) THEN "bg-green-500"
        ELSE IF AtLeast(confidence, 61) THEN "bg-yellow-500"
        ELSE IF AtLeast(confidence, 41) THEN "bg-orange-500"
        ELSE "bg-red-500"

\* lines 1046-1051: the colour class of a row of the predictions table
RowColour(prediction) ==
    LET confidence == Get(prediction, "confidence")
    IN  IF AtLeast(confidence, 80) THEN "bg-green-500"
        ELSE IF AtLeast(confidence, 60) THEN "bg-yellow-500"
        ELSE IF AtLeast(confidence, 40) THEN "bg-orange-500"
        ELSE "bg-red-500"

\* lines 458-492: what the second version of Home derives from result;
\* p.confidence of a null or undefined entry throws
RichView(result) ==
    LET output == Coalesce(result, EmptyObject)
        summary == Coalesce(Get(output, "summary"), EmptyObject)
        clusterProfiles == Coalesce(Get(output, "cluster_profiles"), EmptyObject)
        predictionsPreview ==
            IF IsArray(Get(output, "predictions_preview"))
            THEN Get(output, "predictions_preview").e ELSE <<>>
        recommendation == Coalesce(Get(output, "recommendation"), EmptyObject)
        classDistribution ==
            Coalesce(Get(summary, "class_distribution"), EmptyObject)
        clusterLabels == ObjectKeys(clusterProfiles)
        confidenceValues ==
            [n \in 1..Len(predictionsPreview) |->
                Coalesce(Get(predictionsPreview[n], "confidence"), Num(0))]
    IN  IF \E n \in 1..Len(predictionsPreview) : Nullish(predictionsPreview[n])
        THEN TypeError
        ELSE [kind |-> "rich",
              shown |-> Truthy(result),
              totalWindows |-> Coalesce(Get(summary, "total_windows"), Num(0)),
              dominantWorkload |->
                  Coalesce(Get(summary, "dominant_workload_type"),
                           Str("Unknown")),
              recommendation |-> recommendation,
              classLabels |-> ObjectKeys(classDistribution),
              classValues |-> ObjectValues(classDistribution),
              clusterLabels |-> clusterLabels,
              clusterValues |->
                  [n \in 1..Len(clusterLabels) |->
                      Coalesce(Get(clusterProfiles.f[clusterLabels[n]],
                                   "members"), Num(0))],
              predictionsPreview |-> predictionsPreview,
              confidenceValues |-> confidenceValues,
              avgConfidence |-> Average(confidenceValues),
              confidenceRanges |-> ConfidenceRanges(confidenceValues),
              rowColours |->
                  [n \in 1..Len(TableRows(predictionsPreview)) |->
                      RowColour(TableRows(predictionsPreview)[n])]]

\* what a render of the page derives
Derive(version, result) ==
    IF version = "legacy" THEN LegacyView(result) ELSE RichView(result)

\* ----------------------------------------------- results given to the page
ConfValues == {39, 40, 59, 60, 79, 80, 100}

PreviewEntries ==
    {Null, Obj([window_id |-> Num(1)]), Obj([confidence |-> Null])}
    \cup {Obj([confidence |-> Num(c)]) : c \in ConfValues}

Distribution ==
    OObj(<<"0", "1">>, [k \in {"0", "1"} |-> IF k = "0" THEN Num(5) ELSE Num(3)])
DistributionReversed ==
    OObj(<<"1", "0">>, [k \in {"0", "1"} |-> IF k = "0" THEN Num(5) ELSE Num(3)])
DistributionNamed ==
    OObj(<<"cpu", "0">>,
         [k \in {"cpu", "0"} |-> IF k = "0" THEN Num(1) ELSE Num(4)])

Profiles ==
    OObj(<<"0", "1", "2">>,
         [k \in {"0", "1", "2"} |->
             CASE k = "0" -> Obj([members |-> Num(4), label |-> Str("steady")])
               [] k = "1" -> Obj([label |-> Str("bursty")])
               [] OTHER -> Null])

RichResult(dist, preview) ==
    Obj([summary |->
             Obj([total_windows |-> Num(8),
                  dominant_workload_type |-> Str("cpu"),
                  class_distribution |-> dist]),
         cluster_profiles |-> Profiles,
         predictions_preview |-> Arr(preview),
         recommendation |->
             Obj([action |-> Str("scale up"), reason |-> Str("cpu bound")]),
         message |-> Str("done")])

LegacyResult(classification) ==
    Obj([classification |-> Arr(classification),
         clusters |-> Arr(<<Num(2), Num(0), Num(2)>>)])

RichResults ==
    {RichResult(Distribution, pv) : pv \in SeqUpTo(PreviewEntries, MaxPreview)}
    \cup {RichResult(d, <<>>) : d \in {DistributionReversed, DistributionNamed}}
    \cup {Arr(<<RichResult(Distribution, <<>>)>>),
          Obj([summary |-> Null]),
          Obj([summary |-> EmptyObject]),
          Obj([predictions_preview |-> Str("none")])}

LegacyResults ==
    {LegacyResult(c) : c \in SeqUpTo({Num(v) : v \in ArrValues}, MaxLen)}
    \cup {Arr(<<LegacyResult(<<Num(2), Num(0), Num(2)>>)>>),
          Obj([classification |-> Arr(<<Num(10), Num(2)>>)]),
          Arr(<<>>), Arr(<<Null>>)}

\* what setResult may be given: a body the gateway can send, or null
ResultValues ==
    {Null, EmptyObject, QueuedBody, NoResultBody, Payload}
    \cup LegacyResults \cup RichResults

Versions == {"legacy", "rich"}

VARIABLES
    page,          \* which version of Home is mounted
    resultState,   \* the state `result` of Home (line 32/431)
    view,          \* what the latest render derived
    file,          \* the state `file` of Home (line 31/430)
    loading,       \* the state `loading` of Home (line 33/432)
    error,         \* the state `error` of Home (line 34/433)
    uploads,       \* the handleUpload calls that reached fetch, in order
    clicks,        \* clicks on the submit button so far
    lastOutcome,   \* how the fetch of the latest finished call settled
    rendered,      \* rendered[r]: the view first derived from result r
    req,           \* req[i]: the request of invocation i
    pc,            \* pc[i]: the await the invocation is at
    tmpFiles,      \* temporary files on disk
    uploadedPath,  \* uploadedPath[i]: line 26/37
    filePayload,   \* filePayload[i]: the path whose content was read
    attempt,       \* attempt[i]: loop counter, line 59
    last,          \* last[i]: outcome of the latest predict call, or NoOutcome
    res,           \* res[i]: responses sent, in order
    parsed,        \* parsed[i]: parseForm calls
    reads,         \* reads[i]: readFile calls
    connects,      \* connects[i]: Client.connect calls
    calls,         \* calls[i]: client.predict calls
    waits,         \* waits[i]: backoff waits
    sleptMs,       \* sleptMs[i]: total backoff time
    queuedSeen,    \* queuedSeen[i]: queued outcomes received
    forms,         \* forms[i]: forms in which queued outcomes arrived
    failure,       \* failure[i]: the value caught at line 97, or NoFailure
    unlinked,      \* unlinked[i]: paths this invocation unlinked, in order
    swallowed,     \* swallowed[i]: unlink rejections dropped at line 113
    predictArgs    \* predictArgs[i]: the argument of each predict call

pageVars == <<page, resultState, view>>

clientVars == <<file, loading, error, uploads, clicks, lastOutcome, rendered>>

vars ==
    <<page, resultState, view, file, loading, error, uploads, clicks,
      lastOutcome, rendered, req, pc, tmpFiles, uploadedPath, filePayload,
      attempt, last, res,
      parsed, reads, connects, calls, waits, sleptMs, queuedSeen, forms,
      failure, unlinked, swallowed, predictArgs>>

Invs == DOMAIN pc

NoOutcome == [form |-> "none", val |-> Undefined]
NoFailure == [t |-> "none"]

\* ------------------------------------------------------- the handler's code
\* variant of Uploaded: the alias `upload` is not looked at
UploadedFileOnly(files) == Coalesce(Get(files, "file"), Null)

\* variant of Uploaded: any stored file is taken as the upload
UploadedAnyField(files) ==
    Coalesce(Coalesce(Coalesce(Get(files, "file"), Get(files, "upload")),
                      Get(files, "doc")), Null)

\* line 31: files?.file ?? files?.upload ?? null
Uploaded(files) ==
    Coalesce(Coalesce(Get(files, "file"), Get(files, "upload")), Null)

\* line 37: uploaded.filepath ?? uploaded.filePath ?? uploaded.path
PathOf(uploaded) ==
    Coalesce(Coalesce(Get(uploaded, "filepath"), Get(uploaded, "filePath")),
             Get(uploaded, "path"))

\* variants of LastAttempt: the bound tested one attempt early, and only on
\* the first attempt
LastAttemptEarly(a) == a >= maxAttempts - 1
LastAttemptFirst(a) == a = 1
LastAttemptNever(a) == a = maxAttempts + 1

\* lines 66 and 81: attempt === maxAttempts
LastAttempt(a) == a = maxAttempts

\* variant of SuccessBody: the envelope is sent instead of its data
SuccessBodyEnvelope(result) == Coalesce(result, NoResultBody)

\* lines 75-77: the body of the 200 response
SuccessBody(result) ==
    IF ~Nullish(result) /\ Truthy(Get(result, "data"))
    THEN Get(result, "data")
    ELSE Coalesce(result, NoResultBody)

\* lines 65-77: what the loop body does with a returned value
OnReturn(a, result) ==
    IF IsQueuedReturn(result)
    THEN IF LastAttempt(a)
         THEN [kind |-> "respond", response |-> Response(202, QueuedBody)]
         ELSE [kind |-> "retry", response |-> Response(0, Null)]
    ELSE [kind |-> "respond", response |-> Response(200, SuccessBody(result))]

\* variant of CatchResponse: the sentinel is not answered with 202
CatchResponseNo202(err) ==
    Response(500, ErrorBody(Str("Prediction error")))

\* lines 97-109: the outer catch block
CatchResponse(err) ==
    IF IsQueuedThrow(err)
    THEN Response(202, QueuedBody)
    ELSE IF /\ Truthy(err)
            /\ TypeofObject(err)
            /\ (HasKey(err, "message") \/ HasKey(err, "type"))
    THEN Response(500,
                  ErrorBody(Coalesce(Get(err, "message"), JSONStringify(err))))
    ELSE Response(500,
                  ErrorBody(IF Truthy(err) /\ Truthy(toString(err))
                            THEN toString(err)
                            ELSE Str("Prediction error")))

\* variants of OnThrow: a thrown sentinel is not recognised in the loop, and
\* every thrown value is retried
OnThrowRethrowAll(a, err) ==
    [kind |-> "rethrow", response |-> CatchResponse(err)]
OnThrowRetryAll(a, err) ==
    IF LastAttempt(a)
    THEN [kind |-> "rethrow", response |-> CatchResponse(err)]
    ELSE [kind |-> "retry", response |-> Response(0, Null)]

\* lines 78-91: what the inner catch does with a thrown value
OnThrow(a, err) ==
    IF IsQueuedThrow(err)
    THEN IF LastAttempt(a)
         THEN [kind |-> "respond", response |-> Response(202, QueuedBody)]
         ELSE [kind |-> "retry", response |-> Response(0, Null)]
    ELSE [kind |-> "rethrow", response |-> CatchResponse(err)]

OnOutcome(a, o) ==
    IF o.form = "return" THEN OnReturn(a, o.val) ELSE OnThrow(a, o.val)

\* variant of PredictArgument: the payload is passed as a positional
\* argument
PredictArgumentPositional(payload) == Arr(<<payload>>)

\* line 62: the second argument of client.predict, { file: filePayload }
PredictArgument(payload) == Obj([file |-> payload])

\* ------------------------------------------------------ the page's client
MaxUploads == 3

\* the File the input element gives (line 291/745)
File == [t |-> "file", name |-> "data.csv"]

\* a response body that is not JSON text
NotJson == [t |-> "notjson"]

\* what fetch rejects with, and what res.json() and a property read of null
\* throw: Error objects
NetworkError == Obj([message |-> Str("Failed to fetch")])
SyntaxError == Obj([message |-> Str("Unexpected token < in JSON")])
NullReadError ==
    Obj([message |-> Str("Cannot read properties of null (reading 'error')")])

\* res.statusText: the reason phrase of HTTP/1.1, empty over HTTP/2
ReasonPhrase(status) ==
    CASE status = 400 -> "Bad Request"
      [] status = 405 -> "Method Not Allowed"
      [] status = 500 -> "Internal Server Error"
      [] status = 502 -> "Bad Gateway"
      [] OTHER -> "OK"

\* the responses the gateway handler sends (lines 23, 33, 39, 67-77, 99-109)
GatewayResponses ==
    {Response(405, ErrorBody(Str("Method not allowed"))),
     Response(400, ErrorBody(Str("No file uploaded"))),
     Response(400, ErrorBody(Str("Uploaded file path not found"))),
     Response(202, QueuedBody)}
    \cup {Response(200, SuccessBody(r)) :
             r \in {v \in ReturnValues : ~IsQueuedReturn(v)}}
    \cup {CatchResponse(e) : e \in ThrowValues \cup {ParseError, ReadError}}

\* responses of the server of line 445 and of what stands before a server
OtherResponses ==
    {Response(200, RichResult(Distribution,
                              <<Obj([confidence |-> Num(80)]),
                                Obj([confidence |-> Num(60)])>>)),
     Response(200, LegacyResult(<<Num(2), Num(0), Num(2)>>)),
     Response(200, Null),
     Response(200, NotJson),
     Response(500, ErrorBody(Str(""))),
     Response(500, Null),
     Response(502, NotJson)}

\* how a fetch may settle: rejected, or resolved with a response
FetchOutcomes ==
    {[kind |-> "reject", err |-> NetworkError]}
    \cup [kind : {"response"}, res : GatewayResponses \cup OtherResponses,
          statusText : {""}]
    \cup {[kind |-> "response", res |-> r,
           statusText |-> ReasonPhrase(r.status)] :
             r \in GatewayResponses \cup OtherResponses}

NoFetchOutcome == [kind |-> "none"]

\* res.ok
Ok(response) == response.status \in 200..299

\* a || b
Or(a, b) == IF Truthy(a) THEN a ELSE b

\* lines 46-47 (446-447): what the try block does with a response: the data
\* it gives setResult, or the Error it throws
OnResponse(o) ==
    IF o.res.body = NotJson
    THEN [ok |-> FALSE, err |-> SyntaxError]
    ELSE IF Ok(o.res)
    THEN [ok |-> TRUE, data |-> o.res.body]
    ELSE IF Nullish(o.res.body)
    THEN [ok |-> FALSE, err |-> NullReadError]
    ELSE [ok |-> FALSE,
          err |-> Obj([message |->
                     toString(Or(Get(o.res.body, "error"),
                                 Str(o.statusText)))])]

\* variant of ErrorText: the message is taken as it is
ErrorTextAsIs(e) == Get(e, "message")

\* line 50 (450): e.message || "Upload failed"
ErrorText(e) == Or(Get(e, "message"), Str("Upload failed"))

\* ------------------------------------------------------------------ states
InitOf(n, R) ==
    /\ req \in [1..n -> R]
    /\ pc = [i \in 1..n |-> "start"]
    /\ tmpFiles = {}
    /\ uploadedPath = [i \in 1..n |-> Undefined]
    /\ filePayload = [i \in 1..n |-> Undefined]
    /\ attempt = [i \in 1..n |-> 0]
    /\ last = [i \in 1..n |-> NoOutcome]
    /\ res = [i \in 1..n |-> <<>>]
    /\ parsed = [i \in 1..n |-> 0]
    /\ reads = [i \in 1..n |-> 0]
    /\ connects = [i \in 1..n |-> 0]
    /\ calls = [i \in 1..n |-> 0]
    /\ waits = [i \in 1..n |-> 0]
    /\ sleptMs = [i \in 1..n |-> 0]
    /\ queuedSeen = [i \in 1..n |-> 0]
    /\ forms = [i \in 1..n |-> {}]
    /\ failure = [i \in 1..n |-> NoFailure]
    /\ unlinked = [i \in 1..n |-> <<>>]
    /\ swallowed = [i \in 1..n |-> 0]
    /\ predictArgs = [i \in 1..n |-> <<>>]

\* lines 31-34 (430-433): the useState calls, and the first render
PageInit(V) ==
    /\ page \in V
    /\ resultState = Null
    /\ view = Derive(page, Null)
    /\ file = Null
    /\ loading = FALSE
    /\ error = Null
    /\ uploads = <<>>
    /\ clicks = 0
    /\ lastOutcome = NoFetchOutcome
    /\ rendered = (Null :> Derive(page, Null))

Init == InitOf(1, RealRequests) /\ PageInit({"rich"})

InitPair == InitOf(2, PairRequests) /\ PageInit({"rich"})

\* the page alone: no request is at the gateway
InitPage == InitOf(0, RealRequests) /\ PageInit(Versions)

\* variant of HandlerStart: the method is not checked
HandlerStartNoCheck(i) ==
    /\ pc[i] = "start"
    /\ pc' = [pc EXCEPT ![i] = "parseForm"]
    /\ UNCHANGED <<req, tmpFiles, uploadedPath, filePayload, attempt, last, res,
                   parsed, reads, connects, calls, waits, sleptMs, queuedSeen,
                   forms, failure, unlinked>>
    /\ UNCHANGED <<swallowed, predictArgs>>

\* lines 21-29: the method check, then the call of parseForm
HandlerStart(i) ==
    /\ pc[i] = "start"
    /\ IF req[i].method # "POST"
       THEN /\ res' = [res EXCEPT ![i] =
                          Append(@, Response(405,
                                             ErrorBody(Str("Method not allowed"))))]
            /\ pc' = [pc EXCEPT ![i] = "done"]
       ELSE /\ pc' = [pc EXCEPT ![i] = "parseForm"]
            /\ UNCHANGED res
    /\ UNCHANGED <<req, tmpFiles, uploadedPath, filePayload, attempt, last,
                   parsed, reads, connects, calls, waits, sleptMs, queuedSeen,
                   forms, failure, unlinked>>
    /\ UNCHANGED <<swallowed, predictArgs>>

\* lines 12-19 and 29-43: the form is parsed (its files are on disk by then),
\* the upload is picked and its path resolved, up to the call of readFile
ParseForm(i) ==
    /\ pc[i] = "parseForm"
    /\ parsed' = [parsed EXCEPT ![i] = @ + 1]
    /\ IF req[i].malformed
       THEN /\ failure' = [failure EXCEPT ![i] = ParseError]
            /\ res' = [res EXCEPT ![i] = Append(@, CatchResponse(ParseError))]
            /\ pc' = [pc EXCEPT ![i] = "finally"]
            /\ UNCHANGED <<tmpFiles, uploadedPath>>
       ELSE LET files == Files(i, req[i])
                picked == Uploaded(files)
                uploaded == IF IsArray(picked) THEN picked.e[1] ELSE picked
                path == PathOf(uploaded)
            IN  /\ tmpFiles' = tmpFiles \cup Stored(i, req[i])
                /\ UNCHANGED failure
                /\ IF ~Truthy(uploaded)
                   THEN /\ res' = [res EXCEPT ![i] =
                               Append(@, Response(400,
                                   ErrorBody(Str("No file uploaded"))))]
                        /\ pc' = [pc EXCEPT ![i] = "finally"]
                        /\ UNCHANGED uploadedPath
                   ELSE /\ uploadedPath' = [uploadedPath EXCEPT ![i] = path]
                        /\ IF ~Truthy(path)
                           THEN /\ res' = [res EXCEPT ![i] =
                                       Append(@, Response(400,
                                           ErrorBody(Str("Uploaded file path not found"))))]
                                /\ pc' = [pc EXCEPT ![i] = "finally"]
                           ELSE /\ pc' = [pc EXCEPT ![i] = "readFile"]
                                /\ UNCHANGED res
    /\ UNCHANGED <<req, filePayload, attempt, last, reads, connects, calls,
                   waits, sleptMs, queuedSeen, forms, unlinked>>
    /\ UNCHANGED <<swallowed, predictArgs>>

\* lines 43-54: readFile settles; on success the payload is built and
\* Client.connect is called
ReadFile(i) ==
    /\ pc[i] = "readFile"
    /\ reads' = [reads EXCEPT ![i] = @ + 1]
    /\ \E ok \in BOOLEAN :
          /\ ok => uploadedPath[i] \in tmpFiles
          /\ IF ok
             THEN /\ filePayload' = [filePayload EXCEPT ![i] = uploadedPath[i]]
                  /\ pc' = [pc EXCEPT ![i] = "connect"]
                  /\ UNCHANGED <<res, failure>>
             ELSE /\ failure' = [failure EXCEPT ![i] = ReadError]
                  /\ res' = [res EXCEPT ![i] = Append(@, CatchResponse(ReadError))]
                  /\ pc' = [pc EXCEPT ![i] = "finally"]
                  /\ UNCHANGED filePayload
    /\ UNCHANGED <<req, tmpFiles, uploadedPath, attempt, last, parsed,
                   connects, calls, waits, sleptMs, queuedSeen, forms, unlinked>>
    /\ UNCHANGED <<swallowed, predictArgs>>

\* lines 54-62: Client.connect settles; on success the loop starts
Connect(i) ==
    /\ pc[i] = "connect"
    /\ connects' = [connects EXCEPT ![i] = @ + 1]
    /\ \/ /\ attempt' = [attempt EXCEPT ![i] = 1]
          /\ pc' = [pc EXCEPT ![i] = "predict"]
          /\ UNCHANGED <<res, failure>>
       \/ \E err \in ConnectThrows :
             /\ failure' = [failure EXCEPT ![i] = err]
             /\ res' = [res EXCEPT ![i] = Append(@, CatchResponse(err))]
             /\ pc' = [pc EXCEPT ![i] = "finally"]
             /\ UNCHANGED attempt
    /\ UNCHANGED <<req, tmpFiles, uploadedPath, filePayload, last, parsed,
                   reads, calls, waits, sleptMs, queuedSeen, forms, unlinked>>
    /\ UNCHANGED <<swallowed, predictArgs>>

\* lines 62-91 and 97-109: client.predict settles with outcome o
Predict(i, O) ==
    /\ pc[i] = "predict"
    /\ calls' = [calls EXCEPT ![i] = @ + 1]
    /\ predictArgs' = [predictArgs EXCEPT ![i] =
                          Append(@, PredictArgument(filePayload[i]))]
    /\ \E o \in O :
          LET step == OnOutcome(attempt[i], o)
          IN  /\ last' = [last EXCEPT ![i] = o]
              /\ queuedSeen' = [queuedSeen EXCEPT ![i] =
                                  IF IsQueued(o) THEN @ + 1 ELSE @]
              /\ forms' = [forms EXCEPT ![i] =
                             IF IsQueued(o) THEN @ \cup {o.form} ELSE @]
              /\ failure' = [failure EXCEPT ![i] =
                               IF step.kind = "rethrow" THEN o.val ELSE @]
              /\ IF step.kind = "retry"
                 THEN /\ pc' = [pc EXCEPT ![i] = "backoff"]
                      /\ UNCHANGED res
                 ELSE /\ res' = [res EXCEPT ![i] = Append(@, step.response)]
                      /\ pc' = [pc EXCEPT ![i] = "finally"]
    /\ UNCHANGED <<req, tmpFiles, uploadedPath, filePayload, attempt, parsed,
                   reads, connects, waits, sleptMs, unlinked>>
    /\ UNCHANGED swallowed

\* variant of Backoff: the timer's promise is never resolved
BackoffNeverFires(i) ==
    /\ pc[i] = "backoff"
    /\ FALSE
    /\ UNCHANGED vars

\* lines 71-72, 86-87, 59 and 94-96: the timer fires, the loop continues
Backoff(i) ==
    /\ pc[i] = "backoff"
    /\ waits' = [waits EXCEPT ![i] = @ + 1]
    /\ sleptMs' = [sleptMs EXCEPT ![i] = @ + delayMs]
    /\ attempt' = [attempt EXCEPT ![i] = @ + 1]
    /\ IF attempt[i] + 1 <= maxAttempts
       THEN /\ pc' = [pc EXCEPT ![i] = "predict"]
            /\ UNCHANGED res
       ELSE /\ res' = [res EXCEPT ![i] = Append(@, Response(202, QueuedBody))]
            /\ pc' = [pc EXCEPT ![i] = "finally"]
    /\ UNCHANGED <<req, tmpFiles, uploadedPath, filePayload, last, parsed,
                   reads, connects, calls, queuedSeen, forms, failure, unlinked>>
    /\ UNCHANGED <<swallowed, predictArgs>>

\* variant of Finally: the upload is removed on the success path only
FinallyOnSuccess(i) ==
    /\ pc[i] = "finally"
    /\ IF Truthy(uploadedPath[i]) /\ res[i][1].status = 200
       THEN /\ tmpFiles' = tmpFiles \ {uploadedPath[i]}
            /\ unlinked' = [unlinked EXCEPT ![i] = Append(@, uploadedPath[i])]
       ELSE UNCHANGED <<tmpFiles, unlinked>>
    /\ pc' = [pc EXCEPT ![i] = "done"]
    /\ UNCHANGED <<req, uploadedPath, filePayload, attempt, last, res, parsed,
                   reads, connects, calls, waits, sleptMs, queuedSeen, forms,
                   failure, swallowed, predictArgs>>

\* variant of Finally: a rejected unlink is not dropped but answered with a
\* response of its own
FinallyReportsUnlink(i) ==
    /\ pc[i] = "finally"
    /\ IF Truthy(uploadedPath[i])
       THEN /\ unlinked' = [unlinked EXCEPT ![i] = Append(@, uploadedPath[i])]
            /\ \E ok \in BOOLEAN :
                  IF ok
                  THEN /\ tmpFiles' = tmpFiles \ {uploadedPath[i]}
                       /\ UNCHANGED <<swallowed, res>>
                  ELSE /\ res' = [res EXCEPT ![i] =
                                     Append(@, Response(500,
                                         ErrorBody(Str("EPERM: unlink"))))]
                       /\ UNCHANGED <<tmpFiles, swallowed>>
       ELSE UNCHANGED <<tmpFiles, unlinked, swallowed, res>>
    /\ pc' = [pc EXCEPT ![i] = "done"]
    /\ UNCHANGED <<req, uploadedPath, filePayload, attempt, last, parsed,
                   reads, connects, calls, waits, sleptMs, queuedSeen, forms,
                   failure, predictArgs>>

\* lines 110-116: the finally block; unlink removes the file or rejects, and
\* the rejection is dropped by .catch(() => {})
Finally(i) ==
    /\ pc[i] = "finally"
    /\ IF Truthy(uploadedPath[i])
       THEN /\ unlinked' = [unlinked EXCEPT ![i] = Append(@, uploadedPath[i])]
            /\ \E ok \in BOOLEAN :
                  IF ok
                  THEN /\ tmpFiles' = tmpFiles \ {uploadedPath[i]}
                       /\ UNCHANGED swallowed
                  ELSE /\ swallowed' = [swallowed EXCEPT ![i] = @ + 1]
                       /\ UNCHANGED tmpFiles
       ELSE UNCHANGED <<tmpFiles, unlinked, swallowed>>
    /\ pc' = [pc EXCEPT ![i] = "done"]
    /\ UNCHANGED <<req, uploadedPath, filePayload, attempt, last, res, parsed,
                   reads, connects, calls, waits, sleptMs, queuedSeen, forms,
                   failure, predictArgs>>

gatewayVars ==
    <<req, pc, tmpFiles, uploadedPath, filePayload, attempt, last, res,
      parsed, reads, connects, calls, waits, sleptMs, queuedSeen, forms,
      failure, unlinked, swallowed, predictArgs>>

\* variant of Render: the view-model is derived for the first result only
\* and kept from then on
RenderKept(v) ==
    /\ resultState' = v
    /\ view' = IF resultState = Null THEN Derive(page, v) ELSE view

\* lines 57-79 (457-492): the render that follows a change of result
Render(v) ==
    /\ resultState' = v
    /\ view' = Derive(page, v)

\* lines 48 and 51 (447 and 450): setResult(v), and the render it causes
setResult(v) ==
    /\ Render(v)
    /\ UNCHANGED <<page, clientVars, gatewayVars>>

NextPage == \E v \in ResultValues : setResult(v)

\* line 291 (745): the input's onChange, setFile(e.target.files?.[0] ?? null)
setFile(f) ==
    /\ f # file
    /\ file' = f
    /\ UNCHANGED <<page, resultState, view, loading, error, uploads, clicks,
                   lastOutcome, rendered, gatewayVars>>

\* variant of SubmitDisabled: the button is never disabled
SubmitDisabledNever == FALSE

\* lines 296 and 772: the disabled attribute of the submit button
SubmitDisabled ==
    IF page = "legacy" THEN loading ELSE loading \/ ~Truthy(file)

\* lines 37-45 (437-445): a click on the submit button runs handleUpload up
\* to its first await; React renders the new state before the next event
handleUpload ==
    /\ ~SubmitDisabled
    /\ clicks < MaxUploads
    /\ clicks' = clicks + 1
    /\ IF ~Truthy(file)
       THEN UNCHANGED <<loading, error, uploads>>
       ELSE /\ loading' = TRUE
            /\ error' = Null
            /\ uploads' = Append(uploads,
                                 [pc |-> "fetch", formData |-> Obj([file |-> file]),
                                  outcome |-> NoFetchOutcome])
    /\ UNCHANGED <<page, resultState, view, file, lastOutcome, rendered,
                   gatewayVars>>

\* lines 48-54 (448-454): the end of handleUpload call k, whose fetch
\* settled as o: setResult(data), or setError and setResult(null) in the
\* catch block; setLoading(false) in the finally block; then one render
Complete(k, o, done) ==
    LET v == IF done.ok THEN done.data ELSE Null
    IN  /\ Render(v)
        /\ error' = IF done.ok THEN error ELSE ErrorText(done.err)
        /\ loading' = FALSE
        /\ uploads' = [uploads EXCEPT ![k] =
                          [@ EXCEPT !.pc = "done", !.outcome = NoFetchOutcome]]
        /\ lastOutcome' = o
        /\ rendered' = IF v \in DOMAIN rendered THEN rendered
                       ELSE rendered @@ (v :> view')
        /\ UNCHANGED <<page, file, clicks, gatewayVars>>

\* line 45 (445): the fetch of call k settles
FetchSettles(k) ==
    /\ uploads[k].pc = "fetch"
    /\ \E o \in FetchOutcomes :
          IF o.kind = "reject"
          THEN Complete(k, o, [ok |-> FALSE, err |-> o.err])
          ELSE /\ uploads' = [uploads EXCEPT ![k] =
                                 [@ EXCEPT !.pc = "json", !.outcome = o]]
               /\ UNCHANGED <<page, resultState, view, file, loading, error,
                              clicks, lastOutcome, rendered, gatewayVars>>

\* variant of JsonSettles: a 202 answer makes the page submit the file again
JsonSettlesResubmits(k) ==
    /\ uploads[k].pc = "json"
    /\ IF uploads[k].outcome.res.status = 202 /\ Len(uploads) <= MaxUploads
       THEN /\ uploads' = Append([uploads EXCEPT ![k] =
                                     [@ EXCEPT !.pc = "done",
                                               !.outcome = NoFetchOutcome]],
                                 [pc |-> "fetch",
                                  formData |-> uploads[k].formData,
                                  outcome |-> NoFetchOutcome])
            /\ UNCHANGED <<page, resultState, view, file, loading, error,
                           clicks, lastOutcome, rendered, gatewayVars>>
       ELSE Complete(k, uploads[k].outcome, OnResponse(uploads[k].outcome))

\* lines 46-47 (446-447): res.json() of call k settles
JsonSettles(k) ==
    /\ uploads[k].pc = "json"
    /\ Complete(k, uploads[k].outcome, OnResponse(uploads[k].outcome))

NextClient ==
    \/ \E f \in {Null, File} : setFile(f)
    \/ handleUpload
    \/ \E k \in 1..Len(uploads) : FetchSettles(k)
    \/ \E k \in 1..Len(uploads) : JsonSettles(k)

Next ==
    /\ UNCHANGED pageVars
    /\ UNCHANGED clientVars
    /\ \E i \in Invs :
        \/ HandlerStart(i)
        \/ ParseForm(i)
        \/ ReadFile(i)
        \/ Connect(i)
        \/ Predict(i, Outcomes)
        \/ Backoff(i)
        \/ Finally(i)

NextPair ==
    /\ UNCHANGED pageVars
    /\ UNCHANGED clientVars
    /\ \E i \in Invs :
        \/ HandlerStart(i)
        \/ ParseForm(i)
        \/ ReadFile(i)
        \/ Connect(i)
        \/ Predict(i, PairOutcomes)
        \/ Backoff(i)
        \/ Finally(i)

Spec == Init /\ [][Next]_vars

SpecPair == InitPair /\ [][NextPair]_vars

\* every pending await of the handler settles: the form parse, the file read,
\* the connect, each predict call, each timer and the unlink
LiveSpec == Init /\ [][Next]_vars /\ WF_vars(Next)

PageSpec == InitPage /\ [][NextPage]_vars

\* one browser session on the page: the user picks files and clicks, the
\* fetches settle
ClientSpec == InitPage /\ [][NextClient]_vars

\* ------------------------------------------------------------------ claims
\* the invocation has left the try block: its response is out
Settled(i) == pc[i] \in {"finally", "done"}

\* the latest predict call reported "queued"
LastQueued(i) == last[i].form # "none" /\ IsQueued(last[i])

\* the latest predict call returned a value that is not the sentinel
LastFinal(i) == last[i].form = "return" /\ ~IsQueued(last[i])

\* the latest predict call threw a value that is not the sentinel
LastRaised(i) == last[i].form = "throw" /\ ~IsQueued(last[i])

StillQueued == Response(202, QueuedBody)

\* C1: when every predict call reports "queued" (returned or thrown), the
\* handler stops after exactly 12 calls, never makes a 13th, and answers
\* 202 with {queued: true, message: "Prediction queued, try again later"}.
C1_AllQueued ==
    \A i \in Invs :
        /\ calls[i] <= 12
        /\ (Settled(i) /\ calls[i] >= 1 /\ queuedSeen[i] = calls[i]) =>
               /\ calls[i] = 12
               /\ res[i] = <<StillQueued>>

C1_Witness ==
    \E i \in Invs :
        /\ pc[i] = "done"
        /\ queuedSeen[i] = 12
        /\ forms[i] = {"return", "throw"}
        /\ res[i] = <<StillQueued>>

\* C2: when the first k-1 predict calls report "queued" and the k-th returns
\* a final result (1 <= k <= 12), the handler answers 200 with that result
\* after exactly k calls; it never stops on a queued outcome before call 12.
C2_FinalAfterQueued ==
    \A i \in Invs :
        /\ (Settled(i) /\ LastQueued(i)) => calls[i] = 12
        /\ (pc[i] = "backoff") => (LastQueued(i) /\ calls[i] < 12)
        /\ LastFinal(i) =>
               /\ Settled(i)
               /\ calls[i] = queuedSeen[i] + 1
               /\ calls[i] \in 1..12
               /\ Len(res[i]) = 1
               /\ res[i][1].status = 200
               /\ last[i].val \in {DataEnvelope, Payload} =>
                      res[i][1].body = Payload

C2_Witness ==
    \E i \in Invs :
        /\ pc[i] = "done"
        /\ calls[i] = 12
        /\ queuedSeen[i] = 11
        /\ last[i] = [form |-> "return", val |-> DataEnvelope]
        /\ res[i] = <<Response(200, Payload)>>

\* C3: once the handler has resolved the upload's temporary path, it unlinks
\* that file exactly once before it finishes, on every exit path (200, 202,
\* 500 after a read, connect or predict failure), and never more than once.
C3_TempFileDeletedOnce ==
    \A i \in Invs :
        /\ Len(unlinked[i]) <= 1
        /\ (pc[i] = "done" /\ Truthy(uploadedPath[i])) =>
               /\ unlinked[i] = <<uploadedPath[i]>>
               /\ swallowed[i] = 0 => uploadedPath[i] \notin tmpFiles
        /\ (pc[i] # "done") => unlinked[i] = <<>>

C3_Witness ==
    \E i \in Invs :
        /\ pc[i] = "done"
        /\ calls[i] = 1
        /\ failure[i] = UpstreamError
        /\ res[i][1].status = 500
        /\ unlinked[i] = <<TmpPath(i, "file")>>

\* the upstream outcome with the form of a queued outcome erased
Erase(o) == IF IsQueued(o) THEN [form |-> "queued", val |-> Undefined] ELSE o

\* the invocation has dealt with the outcome of a predict call
Handled(i) == calls[i] >= 1 /\ pc[i] \in {"backoff", "finally", "done"}

\* C4: the sentinel is handled alike returned or thrown: two invocations
\* that have received the same outcomes up to the form of the queued ones
\* have made the same number of predict calls and backoff waits, are both
\* retrying or both answered, and have sent the same status and body.
C4_QueuedFormsAlike ==
    \A i \in Invs : \A j \in Invs :
        (/\ Handled(i) /\ Handled(j)
         /\ queuedSeen[i] = queuedSeen[j]
         /\ Erase(last[i]) = Erase(last[j])) =>
            /\ calls[i] = calls[j]
            /\ waits[i] = waits[j]
            /\ (pc[i] = "backoff") <=> (pc[j] = "backoff")
            /\ res[i] = res[j]

C4_Witness ==
    /\ Cardinality(Invs) = 2
    /\ \A i \in Invs : pc[i] = "done" /\ queuedSeen[i] = 12
    /\ forms[1] = {"return"}
    /\ forms[2] = {"throw"}
    /\ res[1] = <<StillQueued>>
    /\ res[2] = <<StillQueued>>

\* the message string of a thrown value: its message property, or the value
\* itself when a string was thrown
MessageOf(err) == IF err.t = "string" THEN err ELSE Get(err, "message")

\* C5 as claimed: a non-sentinel value thrown by predict attempt k ends the
\* loop (no further call, no further wait) and is answered with 500 whose
\* error field is the thrown value's message string.
C5_ErrorIsMessage ==
    \A i \in Invs :
        LastRaised(i) =>
            /\ Settled(i)
            /\ calls[i] = queuedSeen[i] + 1
            /\ waits[i] = queuedSeen[i]
            /\ res[i] = <<Response(500, ErrorBody(MessageOf(last[i].val)))>>

\* the best available message of a thrown value: its message when it has
\* one; else its JSON text when it is an object with a message or type key;
\* else the value itself when it is a non-empty string, "[object Object]"
\* for another object, and "Prediction error" for null or the empty string
BestMessage(err) ==
    IF err.t = "object" /\ ~Nullish(Get(err, "message"))
    THEN Get(err, "message")
    ELSE IF err.t = "object" /\ DOMAIN err.f \cap {"message", "type"} # {}
    THEN JSONStringify(err)
    ELSE IF err.t = "object" THEN Str("[object Object]")
    ELSE IF err.t = "string" /\ err.s # "" THEN err
    ELSE Str("Prediction error")

\* C5 amended: a non-sentinel value thrown by predict attempt k ends the loop
\* (no further call, no further wait) and is answered with 500 whose error
\* field is the best available message of the thrown value.
C5_ErrorIsBestMessage ==
    \A i \in Invs :
        LastRaised(i) =>
            /\ Settled(i)
            /\ calls[i] = queuedSeen[i] + 1
            /\ waits[i] = queuedSeen[i]
            /\ res[i] = <<Response(500, ErrorBody(BestMessage(last[i].val)))>>

C5_Witness ==
    \E i \in Invs :
        /\ pc[i] = "done"
        /\ queuedSeen[i] = 3
        /\ calls[i] = 4
        /\ last[i] = [form |-> "throw", val |-> UpstreamError]
        /\ res[i] = <<Response(500, ErrorBody(Str("upstream failed")))>>

\* a POST whose form parses and carries no file under `file` or `upload`
NoUpload(r) ==
    r.method = "POST" /\ ~r.malformed /\ r.sent \cap {"file", "upload"} = {}

\* C6: a POST whose parsed form has no upload under `file` or `upload` is
\* answered 400 {error: "No file uploaded"}, and the upstream service is
\* never contacted in that invocation: no connect, no predict call.
C6_NoFileUploaded ==
    \A i \in Invs :
        NoUpload(req[i]) =>
            /\ connects[i] = 0
            /\ calls[i] = 0
            /\ reads[i] = 0
            /\ parsed[i] >= 1 =>
                   res[i] = <<Response(400, ErrorBody(Str("No file uploaded")))>>

C6_Witness ==
    \E i \in Invs :
        /\ pc[i] = "done"
        /\ req[i].sent = {"doc"}
        /\ res[i] = <<Response(400, ErrorBody(Str("No file uploaded")))>>
        /\ connects[i] = 0

C8_MalformedIs400 ==
    \A i \in Invs :
        (req[i].method = "POST" /\ req[i].malformed) =>
            /\ connects[i] = 0
            /\ calls[i] = 0
            /\ res[i] # <<>> => res[i][1].status = 400

\* C9: when an invocation has finished, none of the temporary files the form
\* parser stored for its request is left on disk, whatever the outcome
\* (a file whose unlink was rejected aside).
C9_NoStoredFileLeft ==
    \A i \in Invs :
        (pc[i] = "done" /\ swallowed[i] = 0) =>
            Stored(i, req[i]) \cap tmpFiles = {}

\* what the upstream service sent as its result: the data of an envelope,
\* or the returned value itself
UpstreamPayload(result) ==
    IF HasKey(result, "data") THEN result.f.data ELSE result

Unrecognised(result) ==
    Nullish(result) \/ ~Truthy(Get(result, "data"))

\* C11: when predict returns something that is neither the queued sentinel
\* nor a recognisable result, the handler answers 500 with an error message,
\* not 200.
C11_UnrecognisedIs500 ==
    \A i \in Invs :
        (LastFinal(i) /\ Unrecognised(last[i].val)) =>
            /\ Len(res[i]) = 1
            /\ res[i][1].status = 500
            /\ HasKey(res[i][1].body, "error")

\* C12: one backoff wait of 2000 ms separates any two consecutive predict
\* calls; none follows the 12th attempt, a final result or a non-queued
\* error: an invocation with n predict calls performs exactly n-1 waits.
C12_OneWaitBetweenCalls ==
    \A i \in Invs :
        /\ sleptMs[i] = 2000 * waits[i]
        /\ pc[i] = "predict" => waits[i] = calls[i]
        /\ (pc[i] \in {"backoff", "finally", "done"} /\ calls[i] >= 1) =>
               waits[i] = calls[i] - 1
        /\ calls[i] = 0 => waits[i] = 0

C12_Witness ==
    \E i \in Invs :
        /\ pc[i] = "done"
        /\ calls[i] = 12
        /\ waits[i] = 11
        /\ sleptMs[i] = 22000
        /\ LastQueued(i)

\* C13: every invocation eventually sends its response and finishes, after
\* at most 12 predict calls, when each await settles.
C13_Terminates ==
    /\ [](\A i \in Invs : calls[i] <= 12)
    /\ <>(\A i \in Invs : pc[i] = "done" /\ Len(res[i]) = 1)

C13_Witness ==
    \E i \in Invs :
        /\ pc[i] = "done"
        /\ calls[i] = 12
        /\ Len(res[i]) = 1

\* everything invocation i holds
Own(i) ==
    <<req[i], pc[i], uploadedPath[i], filePayload[i], attempt[i], last[i],
      res[i], parsed[i], reads[i], connects[i], calls[i], waits[i],
      sleptMs[i], queuedSeen[i], forms[i], failure[i], unlinked[i],
      swallowed[i], predictArgs[i]>>

\* a step of invocation i leaves everything of the other invocation as it
\* is, and adds or removes no temporary file but its own
C14_StepLocal ==
    \A i \in Invs :
        pc'[i] # pc[i] =>
            /\ \A j \in Invs \ {i} : Own(j)' = Own(j)
            /\ (tmpFiles' \ tmpFiles) \cup (tmpFiles \ tmpFiles')
                  \subseteq Stored(i, req[i])

\* an invocation's counters follow its own calls, its upload stays on disk
\* until it unlinks it itself, and it unlinks nothing but its own upload
C14_OwnState ==
    \A i \in Invs :
        /\ calls[i] <= 12
        /\ pc[i] = "predict" => attempt[i] = calls[i] + 1
        /\ pc[i] = "backoff" => attempt[i] = calls[i]
        /\ (Settled(i) /\ LastQueued(i)) => calls[i] = 12
        /\ (pc[i] \in {"readFile", "connect", "predict", "backoff", "finally"}
            /\ Truthy(uploadedPath[i])) => uploadedPath[i] \in tmpFiles
        /\ \A k \in 1..Len(unlinked[i]) : unlinked[i][k] = uploadedPath[i]
        /\ \A j \in Invs \ {i} :
              Truthy(uploadedPath[i]) => uploadedPath[i] # uploadedPath[j]

\* C14: two interleaved invocations share no mutable state: a step of one
\* changes nothing of the other; each one's attempt counter, response and
\* deleted file follow from its own upload and outcomes; neither deletes the
\* other's temporary file nor uses part of its 12 attempts.
C14_Independent == []C14_OwnState /\ [][C14_StepLocal]_vars

C14_Witness ==
    /\ Cardinality(Invs) = 2
    /\ pc[1] = "done" /\ calls[1] = 12 /\ res[1] = <<StillQueued>>
    /\ pc[2] = "done" /\ calls[2] = 1 /\ res[2][1].status = 500
    /\ unlinked[1] = <<uploadedPath[1]>>
    /\ unlinked[2] = <<uploadedPath[2]>>
    /\ uploadedPath[1] # uploadedPath[2]

\* C15: a request whose method is not POST is answered 405 {error: "Method
\* not allowed"}; the form is not parsed, no temporary file is read or
\* deleted, and the upstream service is not contacted.
C15_MethodNotAllowed ==
    \A i \in Invs :
        req[i].method # "POST" =>
            /\ parsed[i] = 0 /\ reads[i] = 0
            /\ connects[i] = 0 /\ calls[i] = 0
            /\ unlinked[i] = <<>>
            /\ pc[i] \in {"start", "done"}
            /\ pc[i] = "done" =>
                   res[i] = <<Response(405, ErrorBody(Str("Method not allowed")))>>

C15_Witness ==
    \E i \in Invs :
        /\ req[i].method = "GET"
        /\ pc[i] = "done"
        /\ res[i] = <<Response(405, ErrorBody(Str("Method not allowed")))>>

\* a POST whose form parses and carries an upload with a path
HasUpload(r) ==
    /\ r.method = "POST" /\ ~r.malformed /\ r.hasPath
    /\ r.sent \cap {"file", "upload"} # {}

\* the field whose file is submitted
Chosen(r) == IF "file" \in r.sent THEN "file" ELSE "upload"

\* C16: an upload under `upload` (no `file`) is processed exactly like one
\* under `file`: same upstream calls, same response, its temporary file
\* read and deleted; with both fields present the `file` upload is submitted.
C16_AliasAlike ==
    /\ \A i \in Invs :
          HasUpload(req[i]) =>
              LET path == TmpPath(i, Chosen(req[i]))
              IN  /\ parsed[i] >= 1 => uploadedPath[i] = path
                  /\ (reads[i] >= 1 /\ failure[i] # ReadError) =>
                         filePayload[i] = path
                  /\ pc[i] = "done" => unlinked[i] = <<path>>
    /\ \A i \in Invs : \A j \in Invs :
          (/\ HasUpload(req[i]) /\ HasUpload(req[j])
           /\ pc[i] = pc[j] /\ failure[i] = failure[j]
           /\ last[i] = last[j] /\ queuedSeen[i] = queuedSeen[j]) =>
              /\ res[i] = res[j]
              /\ calls[i] = calls[j] /\ waits[i] = waits[j]
              /\ connects[i] = connects[j] /\ reads[i] = reads[j]

C16_Witness ==
    /\ Cardinality(Invs) = 2
    /\ req[1].sent = {"upload"}
    /\ req[2].sent = {"file", "upload"}
    /\ \A i \in Invs : pc[i] = "done" /\ res[i] = <<Response(200, Payload)>>
    /\ unlinked[1] = <<TmpPath(1, "upload")>>
    /\ unlinked[2] = <<TmpPath(2, "file")>>

\* C17: deriving and rendering the view-model never throws, for any result
\* (null, {}, an array, either shape, fields missing, null entries in
\* predictions_preview), and every absent field yields its default.
C17_NeverThrows ==
    /\ view # TypeError
    /\ (page = "rich" /\ resultState \in {Null, EmptyObject}) =>
           /\ view.classLabels = <<>> /\ view.clusterLabels = <<>>
           /\ view.totalWindows = Num(0)
           /\ view.dominantWorkload = Str("Unknown")
           /\ view.confidenceValues = <<>>
    /\ (page = "legacy" /\ resultState \in {Null, EmptyObject}) =>
           /\ view.classification.labels = <<>>
           /\ view.classification.total = 0

\* the class labels and class values a view-model shows, of either version
ClassLabels(v) ==
    IF v.kind = "legacy" THEN v.classification.labels ELSE v.classLabels
ClassValues(v) ==
    IF v.kind = "legacy" THEN v.classification.values ELSE v.classValues

\* the value whose shape is looked at: element 0 of an array, else the result
Element0(r) ==
    IF IsArray(r)
    THEN Coalesce(IF Len(r.e) >= 1 THEN r.e[1] ELSE Undefined, EmptyObject)
    ELSE Coalesce(r, EmptyObject)

\* C18: the presenter takes element 0 of an array result; then a value with
\* a `summary` key gives the rich view-model (labels and counts of
\* summary.class_distribution), any other the legacy one (labels and counts
\* of the flat classification array).
C18_ShapeDetection ==
    LET o == Element0(resultState)
        rich == RichView(o)
        legacy == LegacyView(o)
    IN  (view # TypeError /\ rich # TypeError) =>
            IF HasKey(o, "summary")
            THEN /\ ClassLabels(view) = rich.classLabels
                 /\ ClassValues(view) = rich.classValues
            ELSE /\ ClassLabels(view) = legacy.classification.labels
                 /\ ClassValues(view) = legacy.classification.values

\* the table t is the frequency table of the numbers arr
IsFrequencyTable(arr, t) ==
    LET vals == {arr[n].n : n \in 1..Len(arr)}
        numberOf(label) == CHOOSE v \in vals : ToString(v) = label
        occurrences(v) == Cardinality({n \in 1..Len(arr) : arr[n].n = v})
    IN  /\ Len(t.labels) = Cardinality(vals)
        /\ Len(t.values) = Len(t.labels)
        /\ \A n \in 1..Len(t.labels) :
              /\ \E v \in vals : t.labels[n] = ToString(v)
              /\ t.values[n] = Num(occurrences(numberOf(t.labels[n])))
        /\ \A n \in 1..(Len(t.labels) - 1) :
              numberOf(t.labels[n]) < numberOf(t.labels[n + 1])
        /\ SumFrom(t.values, 1) = Len(arr)
        /\ t.total = Len(arr)

\* C19: buildCounts returns as labels the distinct values of the array, each
\* once, in ascending numeric order; values[i] is the number of occurrences
\* of labels[i]; the values sum to the array length, which is total.
C19_BuildCounts ==
    page = "legacy" =>
        /\ IsFrequencyTable(view.classificationData, view.classification)
        /\ IsFrequencyTable(view.clusterData, view.clusters)

C19_Witness ==
    /\ page = "legacy"
    /\ view.classificationData = <<Num(10), Num(-1), Num(10)>>
    /\ view.classification.labels = <<"-1", "10">>
    /\ view.classification.values = <<Num(1), Num(2)>>
    /\ view.clusters.labels = <<"0", "2">>

\* C20: every confidence of the preview list, a missing one counting as 0,
\* is counted in exactly one of the four ranges: the four counts sum to the
\* length of the preview list.
C20_RangesPartition ==
    (page = "rich" /\ view # TypeError) =>
        LET ranges == view.confidenceRanges
            preview == view.predictionsPreview
        IN  /\ Len(view.confidenceValues) = Len(preview)
            /\ \A n \in 1..Len(preview) :
                  /\ view.confidenceValues[n].n \in 0..100
                  /\ Nullish(Get(preview[n], "confidence")) =>
                         view.confidenceValues[n] = Num(0)
            /\ ranges.High + ranges.Medium + ranges.Low + ranges.VeryLow
                  = Len(preview)
            /\ \A k \in DOMAIN ranges : ranges[k] \in 0..Len(preview)

C20_Witness ==
    /\ page = "rich"
    /\ view # TypeError
    /\ view.predictionsPreview =
          <<Obj([window_id |-> Num(1)]), Obj([confidence |-> Num(60)])>>
    /\ view.confidenceRanges =
          [High |-> 0, Medium |-> 1, Low |-> 0, VeryLow |-> 1]

\* the range the claim gives a confidence c of 0..1 (in hundredths)
RangeOf(c) ==
    CASE c >= 80 /\ c <= 100 -> "High"
      [] c >= 60 /\ c < 80 -> "Medium"
      [] c >= 40 /\ c < 60 -> "Low"
      [] c >= 0 /\ c < 40 -> "VeryLow"

\* the colour class the predictions table gives a range
ColourOf(range) ==
    CASE range = "High" -> "bg-green-500"
      [] range = "Medium" -> "bg-yellow-500"
      [] range = "Low" -> "bg-orange-500"
      [] range = "VeryLow" -> "bg-red-500"

\* C21: a confidence c is counted High iff 0.8 <= c <= 1.0, Medium iff
\* 0.6 <= c < 0.8, Low iff 0.4 <= c < 0.6, Very Low iff 0 <= c < 0.4 (so
\* 0.8, 0.6 and 0.4 are High, Medium and Low), and the colour class of a row
\* of the predictions table follows the same thresholds.
C21_Boundaries ==
    (page = "rich" /\ view # TypeError) =>
        LET cs == view.confidenceValues
            in(range) == {n \in 1..Len(cs) : RangeOf(cs[n].n) = range}
        IN  /\ view.confidenceRanges.High = Cardinality(in("High"))
            /\ view.confidenceRanges.Medium = Cardinality(in("Medium"))
            /\ view.confidenceRanges.Low = Cardinality(in("Low"))
            /\ view.confidenceRanges.VeryLow = Cardinality(in("VeryLow"))
            /\ Len(view.rowColours) = Len(cs)
            /\ \A n \in 1..Len(cs) :
                  view.rowColours[n] = ColourOf(RangeOf(cs[n].n))

C21_Witness ==
    /\ page = "rich"
    /\ view # TypeError
    /\ view.confidenceValues = <<Num(60), Num(40)>>
    /\ view.confidenceRanges =
          [High |-> 0, Medium |-> 1, Low |-> 1, VeryLow |-> 0]
    /\ view.rowColours = <<"bg-yellow-500", "bg-orange-500">>

\* the value of key k of the object at `path` of the result, an absent
\* object being empty
Inner(result, path) ==
    LET step1 == Coalesce(Get(Coalesce(result, EmptyObject), path[1]),
                          EmptyObject)
    IN  IF Len(path) = 1 THEN step1
        ELSE Coalesce(Get(step1, path[2]), EmptyObject)

\* the position of key k in the order the keys of o were created
CreatedAt(o, k) == CHOOSE n \in 1..Len(o.order) : o.order[n] = k

\* labels lists each key of o once, in object key order: integer keys
\* ascending, then the other keys as created
InKeyOrder(labels, o) ==
    /\ Len(labels) = Cardinality(DOMAIN o.f)
    /\ {labels[n] : n \in 1..Len(labels)} = DOMAIN o.f
    /\ \A m \in 1..Len(labels) : \A n \in 1..Len(labels) :
          m < n =>
              \/ IsIndexKey(labels[m]) /\ ~IsIndexKey(labels[n])
              \/ /\ IsIndexKey(labels[m]) /\ IsIndexKey(labels[n])
                 /\ Number(labels[m]) < Number(labels[n])
              \/ /\ ~IsIndexKey(labels[m]) /\ ~IsIndexKey(labels[n])
                 /\ CreatedAt(o, labels[m]) < CreatedAt(o, labels[n])

\* C22: in the rich shape the class labels are the keys of
\* summary.class_distribution in object key order and classValues[i] is the
\* count of classLabels[i]; clusterValues[i] is the members of
\* clusterLabels[i], 0 when missing; {"0": 5, "1": 3} gives labels
\* ["0","1"] and values [5,3].
C22_LabelsAligned ==
    (page = "rich" /\ view # TypeError) =>
        LET dist == Inner(resultState, <<"summary", "class_distribution">>)
            profiles == Inner(resultState, <<"cluster_profiles">>)
        IN  /\ InKeyOrder(view.classLabels, dist)
            /\ Len(view.classValues) = Len(view.classLabels)
            /\ \A n \in 1..Len(view.classLabels) :
                  view.classValues[n] = dist.f[view.classLabels[n]]
            /\ InKeyOrder(view.clusterLabels, profiles)
            /\ Len(view.clusterValues) = Len(view.clusterLabels)
            /\ \A n \in 1..Len(view.clusterLabels) :
                  LET profile == profiles.f[view.clusterLabels[n]]
                  IN  view.clusterValues[n] =
                          IF HasKey(profile, "members")
                          THEN profile.f.members ELSE Num(0)
            /\ dist = Distribution =>
                  /\ view.classLabels = <<"0", "1">>
                  /\ view.classValues = <<Num(5), Num(3)>>

C22_Witness ==
    /\ page = "rich"
    /\ view # TypeError
    /\ Inner(resultState, <<"summary", "class_distribution">>)
          = DistributionReversed
    /\ view.classLabels = <<"0", "1">>
    /\ view.classValues = <<Num(5), Num(3)>>
    /\ view.clusterLabels = <<"0", "1", "2">>
    /\ view.clusterValues = <<Num(4), Num(0), Num(0)>>

\* the text p is n/total*100 rounded to one decimal, within 0.0..100.0
IsRoundedPercentage(p, n, total) ==
    \E t \in 0..1000 :
        /\ p = Tenths(t)
        /\ 2 * (t * total - 1000 * n) <= total
        /\ 2 * (1000 * n - t * total) <= total

\* C23: in the legacy view the percentage of a label is count/total*100
\* rounded to one decimal, total being the length of the input array, and
\* lies in 0.0..100.0; with total 0 it is "0.0" and nothing is divided.
C23_Percentages ==
    page = "legacy" =>
        /\ Len(view.classificationPct) = Len(view.classification.labels)
        /\ Len(view.clusterPct) = Len(view.clusters.labels)
        /\ \A n \in 1..Len(view.classificationPct) :
              IF Len(view.classificationData) = 0
              THEN view.classificationPct[n] = "0.0"
              ELSE IsRoundedPercentage(view.classificationPct[n],
                                       view.classification.values[n].n,
                                       Len(view.classificationData))
        /\ \A n \in 1..Len(view.clusterPct) :
              IF Len(view.clusterData) = 0
              THEN view.clusterPct[n] = "0.0"
              ELSE IsRoundedPercentage(view.clusterPct[n],
                                       view.clusters.values[n].n,
                                       Len(view.clusterData))
        /\ Percentage(Num(0), 0) = "0.0"

C23_Witness ==
    /\ page = "legacy"
    /\ view.classificationData = <<Num(2), Num(0), Num(2)>>
    /\ view.classification.labels = <<"0", "2">>
    /\ view.classificationPct = <<"33.3", "66.7">>

\* the confidences of the entries of a preview list added up, an entry
\* without one adding nothing
RECURSIVE TotalConfidence(_)
TotalConfidence(preview) ==
    IF preview = <<>> THEN 0
    ELSE (IF HasKey(Head(preview), "confidence")
             /\ Head(preview).f.confidence.t = "number"
          THEN Head(preview).f.confidence.n ELSE 0)
         + TotalConfidence(Tail(preview))

\* C24: the average confidence is 0 for an empty preview list, otherwise
\* the sum of the confidences of the list (a missing one counting 0)
\* divided by the length of the list; [0.8, 0.6] gives 0.7; the divisor is
\* never 0.
C24_AverageConfidence ==
    (page = "rich" /\ view # TypeError) =>
        LET avg == view.avgConfidence
            preview == view.predictionsPreview
        IN  /\ avg.over # 0
            /\ Len(preview) = 0 => avg.sum = 0
            /\ Len(preview) > 0 =>
                   avg.sum * Len(preview) = TotalConfidence(preview) * avg.over
            /\ preview = <<Obj([confidence |-> Num(80)]),
                           Obj([confidence |-> Num(60)])>> =>
                   avg.sum = 70 * avg.over

C24_Witness ==
    /\ page = "rich"
    /\ view # TypeError
    /\ view.confidenceValues = <<Num(80), Num(60)>>
    /\ view.avgConfidence = [sum |-> 140, over |-> 2]

InFlight == {k \in 1..Len(uploads) : uploads[k].pc # "done"}

\* while loading is true no fetch is started
C26_Step == loading => Len(uploads') = Len(uploads)

\* C26: a session has at most one submission in flight: while a submission
\* started by handleUpload has not completed, loading is true and the submit
\* control starts no second fetch.
C26_OneInFlight ==
    /\ [](Cardinality(InFlight) <= 1 /\ (InFlight # {} => loading))
    /\ [][C26_Step]_vars

C26_Witness ==
    /\ Len(uploads) = 2
    /\ uploads[1].pc = "done"
    /\ uploads[2].pc = "json"
    /\ loading
    /\ clicks = 2

\* the fetch settled with a 2xx response whose body is JSON text
OkOutcome(o) == o.kind = "response" /\ Ok(o.res) /\ o.res.body # NotJson

\* how the page stands when a call has completed and none is in flight
C28_Completed ==
    (InFlight = {} /\ Len(uploads) >= 1) =>
        /\ ~loading
        /\ IF OkOutcome(lastOutcome)
           THEN resultState = lastOutcome.res.body /\ error = Null
           ELSE /\ resultState = Null
                /\ error.t = "string" /\ Truthy(error)

\* how the page stands while a call is in flight
C28_InFlight == InFlight # {} => (loading /\ error = Null)

\* a click with no file selected sends no request and changes no state
C28_NoFile ==
    (clicks' # clicks /\ ~Truthy(file)) =>
        UNCHANGED <<file, resultState, loading, error, view, uploads>>

\* C28: when a handleUpload call with a selected file completes, loading is
\* false and either the response was OK, result is its body and error is
\* null, or error is a non-empty message and result is null; while the call
\* is in flight loading is true and error is null; with no file selected
\* handleUpload sends no request and changes no state.
C28_Outcomes ==
    /\ [](C28_Completed /\ C28_InFlight)
    /\ [][C28_NoFile]_vars

C28_Witness ==
    /\ page = "legacy"
    /\ clicks = 3
    /\ Len(uploads) = 2
    /\ InFlight = {}
    /\ lastOutcome = [kind |-> "response", statusText |-> "",
                      res |-> Response(500, ErrorBody(Str("")))]
    /\ error = Str("Upload failed")
    /\ resultState = Null
    /\ ~loading

\* the latest finished call was answered 202 still-queued
AnsweredQueued ==
    /\ InFlight = {} /\ Len(uploads) >= 1
    /\ lastOutcome.kind = "response"
    /\ lastOutcome.res = Response(202, QueuedBody)

\* the view-model with every derived field at its default
AllDefaults(v) ==
    IF v.kind = "legacy"
    THEN /\ v.classification.labels = <<>> /\ v.classification.total = 0
         /\ v.clusters.labels = <<>> /\ v.clusters.total = 0
         /\ v.classificationPct = <<>> /\ v.clusterPct = <<>>
    ELSE /\ v.kind = "rich"
         /\ v.classLabels = <<>> /\ v.clusterLabels = <<>>
         /\ v.totalWindows = Num(0)
         /\ v.dominantWorkload = Str("Unknown")
         /\ v.predictionsPreview = <<>>
         /\ v.avgConfidence.sum = 0
         /\ v.confidenceRanges =
               [High |-> 0, Medium |-> 0, Low |-> 0, VeryLow |-> 0]

\* every fetch is started by a click on the submit button
C29_Step == Len(uploads') # Len(uploads) => clicks' = clicks + 1

\* C29: a 202 still-queued answer takes the path of a 200: error stays null,
\* result is the body {queued: true, message}, and the analysis view is
\* rendered from it with every derived field at its default; the page never
\* submits again on its own.
C29_QueuedLikeOk ==
    /\ [](AnsweredQueued =>
              /\ error = Null
              /\ ~loading
              /\ resultState = QueuedBody
              /\ view.shown
              /\ AllDefaults(view))
    /\ [](Len(uploads) <= clicks)
    /\ [][C29_Step]_vars

C29_Witness ==
    /\ page = "rich"
    /\ AnsweredQueued
    /\ resultState = QueuedBody
    /\ error = Null
    /\ view.shown
    /\ Len(uploads) = 1 /\ clicks = 1

\* the body a status calls for: 202 carries queued: true and no error,
\* 400, 405 and 500 carry an error string and no queued field
ShapeFits(response) ==
    CASE response.status = 202 ->
             /\ Get(response.body, "queued") = Bool(TRUE)
             /\ ~HasKey(response.body, "error")
      [] response.status \in {400, 405, 500} ->
             /\ HasKey(response.body, "error")
             /\ response.body.f.error.t = "string"
             /\ ~HasKey(response.body, "queued")
      [] OTHER -> response.status = 200

\* C27: every invocation sends exactly one response, never none and never
\* two, on every path, a rejected unlink included; its status is one of 200,
\* 202, 400, 405, 500 and its body has the shape of that status.
C27_OneResponse ==
    \A i \in Invs :
        /\ Len(res[i]) <= 1
        /\ Settled(i) <=> Len(res[i]) = 1
        /\ \A k \in 1..Len(res[i]) :
              /\ res[i][k].status \in {200, 202, 400, 405, 500}
              /\ ShapeFits(res[i][k])

C27_Witness ==
    \E i \in Invs :
        /\ pc[i] = "done"
        /\ swallowed[i] = 1
        /\ unlinked[i] = <<uploadedPath[i]>>
        /\ uploadedPath[i] \in tmpFiles
        /\ res[i] = <<StillQueued>>

\* no upstream call of invocation i is made in this step
NoUpstreamCall(i) == connects'[i] = connects[i] /\ calls'[i] = calls[i]

\* once read and connected, and once the file is unlinked, for good
C30_Step ==
    \A i \in Invs :
        /\ unlinked[i] # <<>> => NoUpstreamCall(i)
        /\ calls[i] >= 1 => (reads'[i] = reads[i] /\ connects'[i] = connects[i])

\* one read and one connect precede the first predict call, and each call
\* is given { file: payload } with the content read from the upload
C30_State ==
    \A i \in Invs :
        /\ reads[i] <= 1 /\ connects[i] <= 1
        /\ connects[i] = 1 => reads[i] = 1
        /\ calls[i] >= 1 => (reads[i] = 1 /\ connects[i] = 1)
        /\ Len(predictArgs[i]) = calls[i]
        /\ \A k \in 1..Len(predictArgs[i]) :
              /\ predictArgs[i][k].t = "object"
              /\ DOMAIN predictArgs[i][k].f = {"file"}
              /\ predictArgs[i][k].f.file = uploadedPath[i]
              /\ predictArgs[i][k] = predictArgs[i][1]

\* C30: within one invocation the upload is read once and the upstream
\* client connected once, both before the first predict call; every predict
\* call is given that same payload as the single named argument `file`; no
\* upstream call is made after the temporary file has been unlinked.
C30_ReadOnceSamePayload == []C30_State /\ [][C30_Step]_vars

C30_Witness ==
    \E i \in Invs :
        /\ pc[i] = "done"
        /\ calls[i] = 12 /\ reads[i] = 1 /\ connects[i] = 1
        /\ Len(predictArgs[i]) = 12
        /\ predictArgs[i][12] = Obj([file |-> TmpPath(i, "upload")])
        /\ unlinked[i] = <<TmpPath(i, "upload")>>

====
